---- MODULE Spec2Model ----
(***************************************************************************)
(* pybnfuzzer: tokenizer, definition extractor, rule builder, generator    *)
(* and introspector of src/pybnfuzzer.py as a state machine.               *)
(*                                                                         *)
(* Text is a sequence of one-character strings; indices are 1-based, so    *)
(* Python's bnf[idx] is bnf[idx + 1] here and "idx == len(bnf)" reads      *)
(* idx = Len(bnf) + 1.                                                     *)
(***************************************************************************)
EXTENDS Integers, Sequences, FiniteSets, TLC

VARIABLES pc, bnf, tokens, definitions, def_idx, parsed_rules, next_id,
          entry, outcome, had_repr_call, reprs,
          gstack, output, expanded, last_ret

vars == <<pc, bnf, tokens, definitions, def_idx, parsed_rules, next_id,
          entry, outcome, had_repr_call, reprs,
          gstack, output, expanded, last_ret>>

\* ---------------------------------------------------------------- bounds
MaxLexLen == 4
MaxTokens == 5
MaxRuleTokens == 4
MaxDescribes == 2
RecursionLimit == 12

\* ------------------------------------------------------- program constants
START_LIMIT == 5
PLUS_LIMIT == 5

ALLOWED_SYMBOL_NAME_CHARACTERS ==
    {"a","b","c","d","e","f","g","h","i","j","k","l","m",
     "n","o","p","q","r","s","t","u","v","w","x","y","z",
     "A","B","C","D","E","F","G","H","I","J","K","L","M",
     "N","O","P","Q","R","S","T","U","V","W","X","Y","Z",
     "0","1","2","3","4","5","6","7","8","9","-","_"}

Whitespace == {" ", "\t", "\n", "\r", "\f"}

\* A token value of Python None (distinct from every character sequence).
None == <<"None">>

Token(kind, value) == [kind |-> kind, value |-> value]

\* How a function ended: "ok" (returned), "error" (report_error_and_exit:
\* message printed, SystemExit) or "exception" (an unhandled Python exception).
Ok == [kind |-> "ok", msg |-> ""]
Error(msg) == [kind |-> "error", msg |-> msg]
Exception(name) == [kind |-> "exception", msg |-> name]

\* ------------------------------------------------------------- tokenizer
ScanResult(out, idx, value) == [out |-> out, idx |-> idx, value |-> value]

\* the inner loop of the '<' branch
RECURSIVE ScanSymbolName(_, _, _)
ScanSymbolName(text, idx, symbol_name) ==
    IF idx <= Len(text) /\ text[idx] # ">"
    THEN IF text[idx] \notin ALLOWED_SYMBOL_NAME_CHARACTERS
         THEN ScanResult(Error("only ASCII uppercase and lowercase letters, digits, and - and _ characters are allowed in symbol names"),
                         idx, symbol_name)
         ELSE ScanSymbolName(text, idx + 1, Append(symbol_name, text[idx]))
    ELSE IF idx = Len(text) + 1
         THEN ScanResult(Error("unterminated rule name"), idx, symbol_name)
         ELSE ScanResult(Ok, idx + 1, symbol_name)

\* the inner loop of the '"' and "'" branches (the two are the same code but
\* for the quote character)
RECURSIVE ScanLiteral(_, _, _, _)
ScanLiteral(text, idx, value, quote) ==
    IF idx <= Len(text) /\ text[idx] # quote
    THEN IF text[idx] = "\\"
         THEN \* idx += 1, then bnf[idx] is read with no bounds check
              IF idx + 1 > Len(text)
              THEN ScanResult(Exception("IndexError"), idx + 1, value)
              ELSE IF text[idx + 1] = "n"
                   THEN ScanLiteral(text, idx + 2, Append(value, "\n"), quote)
              ELSE IF text[idx + 1] = "t"
                   THEN ScanLiteral(text, idx + 2, Append(value, "\t"), quote)
              ELSE IF text[idx + 1] = "\\"
                   THEN ScanLiteral(text, idx + 2, Append(value, "\\"), quote)
              ELSE ScanResult(Error("unrecognized escape sequence"), idx + 1, value)
         ELSE ScanLiteral(text, idx + 1, Append(value, text[idx]), quote)
    ELSE IF idx = Len(text) + 1
         THEN ScanResult(Error("unterminated literal value"), idx, value)
         ELSE ScanResult(Ok, idx + 1, value)

\* the inner loop of the '/' branch; symbol_bound tells whether the local
\* symbol_name was ever assigned in this call of lex_bnf
RECURSIVE ScanRegex(_, _, _, _)
ScanRegex(text, idx, regex, symbol_bound) ==
    IF idx <= Len(text) /\ text[idx] # "/"
    THEN IF text[idx] = "'"
         THEN IF idx + 1 <= Len(text)
              THEN IF text[idx + 1] = "/"
                   THEN ScanRegex(text, idx + 2, Append(regex, "/"), symbol_bound)
                   ELSE IF text[idx + 1] = "'"
                   THEN ScanRegex(text, idx + 2, Append(regex, "'"), symbol_bound)
                   ELSE ScanResult(Error("unrecognized escape sequence in regex"), idx + 1, regex)
              ELSE ScanResult(Error("broken escape sequence in regex"), idx + 1, regex)
         ELSE ScanRegex(text, idx + 1, Append(regex, text[idx]), symbol_bound)
    ELSE IF idx = Len(text) + 1
         THEN IF symbol_bound
              THEN ScanResult(Error("unterminated literal value"), idx, regex)
              ELSE ScanResult(Exception("UnboundLocalError"), idx, regex)
         ELSE ScanResult(Ok, idx + 1, regex)

\* the inner loop of the '#' branch: the index of the next '\n' or the end
RECURSIVE ScanComment(_, _)
ScanComment(text, idx) ==
    IF idx <= Len(text) /\ text[idx] # "\n"
    THEN ScanComment(text, idx + 1)
    ELSE idx

SingleCharKind(c) ==
    CASE c = ";" -> "SEMICOLON"
      [] c = "|" -> "ALTER"
      [] c = "(" -> "OPAREN"
      [] c = ")" -> "CPAREN"
      [] c = "*" -> "STAR"
      [] c = "+" -> "PLUS"
      [] c = "?" -> "OPTION"
      [] OTHER -> "none"

LexResult(out, toks) == [out |-> out, tokens |-> toks]

\* the outer while loop of lex_bnf
RECURSIVE LexLoop(_, _, _, _)
LexLoop(text, idx, toks, symbol_bound) ==
    IF idx > Len(text) THEN LexResult(Ok, toks)
    ELSE LET c == text[idx] IN
      IF c = "<" THEN
          LET r == ScanSymbolName(text, idx + 1, <<>>) IN
          IF r.out.kind # "ok" THEN LexResult(r.out, toks)
          ELSE LexLoop(text, r.idx, Append(toks, Token("SYMBOL", r.value)), TRUE)
      ELSE IF c = ":" THEN
          IF idx + 2 <= Len(text) /\ text[idx + 1] = ":" /\ text[idx + 2] = "="
          THEN LexLoop(text, idx + 3, Append(toks, Token("DEFINE", None)), symbol_bound)
          ELSE LexResult(Error("broken rule definition"), toks)
      ELSE IF c = "\"" \/ c = "'" THEN
          LET r == ScanLiteral(text, idx + 1, <<>>, c) IN
          IF r.out.kind # "ok" THEN LexResult(r.out, toks)
          ELSE LexLoop(text, r.idx, Append(toks, Token("LITERAL", r.value)), symbol_bound)
      ELSE IF c = "/" THEN
          LET r == ScanRegex(text, idx + 1, <<>>, symbol_bound) IN
          IF r.out.kind # "ok" THEN LexResult(r.out, toks)
          ELSE LexLoop(text, r.idx, Append(toks, Token("REGEX", r.value)), symbol_bound)
      ELSE IF SingleCharKind(c) # "none" THEN
          LexLoop(text, idx + 1, Append(toks, Token(SingleCharKind(c), None)), symbol_bound)
      ELSE IF c = "#" THEN
          LexLoop(text, ScanComment(text, idx), toks, symbol_bound)
      ELSE IF c \in Whitespace THEN
          LexLoop(text, idx + 1, toks, symbol_bound)
      ELSE LexResult(Error("unrecognized symbol"), toks)

lex_bnf(text) == LexLoop(text, 1, <<>>, FALSE)

\* --------------------------------------------------- definition extractor
\* dict[str, list[Token]] in insertion order: a sequence of entries
Definition(symbol, rule_tokens) == [symbol |-> symbol, tokens |-> rule_tokens]

HasKey(table, symbol) == \E i \in 1..Len(table) : table[i].symbol = symbol

ExtractResult(out, defs) == [out |-> out, definitions |-> defs]

\* the inner while loop: the index of the next SEMICOLON at or after idx, or
\* Len(toks) + 1 when there is none
RECURSIVE ScanToSemicolon(_, _)
ScanToSemicolon(toks, idx) ==
    IF idx <= Len(toks) /\ toks[idx].kind # "SEMICOLON"
    THEN ScanToSemicolon(toks, idx + 1)
    ELSE idx

RECURSIVE ExtractLoop(_, _, _)
\* (an outer loop that rejects a LITERAL it meets outside a definition instead
\* of stepping over it)
ExtractLoopStrict(toks, idx, defs) ==
    IF idx > Len(toks) THEN ExtractResult(Ok, defs)
    ELSE IF toks[idx].kind = "DEFINE" THEN
        IF idx = 1 \/ toks[idx - 1].kind # "SYMBOL"
        THEN ExtractResult(Error("missing symbol for definition"), defs)
        ELSE LET rule_symbol == toks[idx - 1].value
                 stop == ScanToSemicolon(toks, idx + 1)
                 rule_tokens == SubSeq(toks, idx + 1, stop - 1)
             IN IF stop > Len(toks)
                THEN ExtractResult(Error("missing semicolon for rule definition"), defs)
                ELSE IF HasKey(defs, rule_symbol)
                THEN ExtractResult(Error("attempt to redefine existing rule"), defs)
                ELSE ExtractLoop(toks, stop + 1,
                                 Append(defs, Definition(rule_symbol, rule_tokens)))
    ELSE IF toks[idx].kind = "LITERAL"
    THEN ExtractResult(Error("unexpected token"), defs)
    ELSE ExtractLoop(toks, idx + 1, defs)

ExtractLoop(toks, idx, defs) ==
    IF idx > Len(toks) THEN ExtractResult(Ok, defs)
    ELSE IF toks[idx].kind = "DEFINE" THEN
        IF idx = 1 \/ toks[idx - 1].kind # "SYMBOL"
        THEN ExtractResult(Error("missing symbol for definition"), defs)
        ELSE LET rule_symbol == toks[idx - 1].value
                 stop == ScanToSemicolon(toks, idx + 1)
                 rule_tokens == SubSeq(toks, idx + 1, stop - 1)
             IN IF stop > Len(toks)
                THEN ExtractResult(Error("missing semicolon for rule definition"), defs)
                ELSE IF HasKey(defs, rule_symbol)
                THEN ExtractResult(Error("attempt to redefine existing rule"), defs)
                ELSE ExtractLoop(toks, stop + 1,
                                 Append(defs, Definition(rule_symbol, rule_tokens)))
    ELSE ExtractLoop(toks, idx + 1, defs)

parse_all_symbol_definitions(toks) == ExtractLoop(toks, 1, <<>>)

\* ------------------------------------------------------------ rule model
\* One record shape for every Rule variant.  id is the identity of a
\* ReferenceRule instance (the builder creates each one once); 0 elsewhere.
Rule(kind, val, kids, id) == [kind |-> kind, val |-> val, kids |-> kids, id |-> id]

LiteralRule(value) == Rule("LiteralRule", value, <<>>, 0)
RegexRule(pattern) == Rule("RegexRule", pattern, <<>>, 0)
CompoundRule(values) == Rule("CompoundRule", <<>>, values, 0)
AlterationRule(values) == Rule("AlterationRule", <<>>, values, 0)
ReferenceRule(symbol, id) == Rule("ReferenceRule", symbol, <<>>, id)
OptionalRule(value) == Rule("OptionalRule", <<>>, <<value>>, 0)
NoneOrMoreRule(value) == Rule("NoneOrMoreRule", <<>>, <<value>>, 0)
OneOrMoreRule(value) == Rule("OneOrMoreRule", <<>>, <<value>>, 0)

\* DictOfRules in insertion order
RuleEntry(symbol, rule) == [symbol |-> symbol, rule |-> rule]

\* self.context.get(self.symbol): the entry's index, 0 for None
RECURSIVE IndexOfKey(_, _, _)
IndexOfKey(table, symbol, i) ==
    IF i > Len(table) THEN 0
    ELSE IF table[i].symbol = symbol THEN i
    ELSE IndexOfKey(table, symbol, i + 1)

\* (a lookup that falls back to the first rule when the symbol is absent)
ContextGetOrFirst(table, symbol) ==
    IF IndexOfKey(table, symbol, 1) = 0 /\ Len(table) > 0
    THEN 1 ELSE IndexOfKey(table, symbol, 1)

ContextGet(table, symbol) == IndexOfKey(table, symbol, 1)

\* ----------------------------------------------------------- rule builder
\* re.compile on the patterns of this model: a pattern that opens with a
\* quantifier does not compile (re.error, not caught by the builder)
ReCompiles(pattern) == Len(pattern) = 0 \/ pattern[1] \notin {"*", "+", "?"}

BuildResult(out, rule, nid) == [out |-> out, rule |-> rule, next_id |-> nid]

NoRule == Rule("none", <<>>, <<>>, 0)

\* list.pop() then append of the wrapped node
ReplaceLast(current, node) == Append(SubSeq(current, 1, Len(current) - 1), node)

\* (a flush that wraps a single node in a CompoundRule too)
FlushVariantAlwaysCompound(current) == CompoundRule(current)

\* "the bare node if the sequence holds one node, else a CompoundRule"
FlushVariant(current) ==
    IF Len(current) = 1 THEN current[1] ELSE CompoundRule(current)

\* the while loop over one symbol's rule_tokens and the code after it
RECURSIVE BuildLoop(_, _, _, _, _)
BuildLoop(rule_tokens, idx, alteration_variants, current_variant_rules, nid) ==
    IF idx > Len(rule_tokens) THEN
        \* last variant is never handled in the loop
        IF Len(current_variant_rules) = 0
        THEN BuildResult(Error("empty alteration variant in rule"), NoRule, nid)
        ELSE LET variants == Append(alteration_variants, FlushVariant(current_variant_rules))
             IN IF Len(variants) = 0
                THEN BuildResult(Error("rule is empty"), NoRule, nid)
                ELSE IF Len(variants) = 1
                THEN BuildResult(Ok, variants[1], nid)
                ELSE BuildResult(Ok, AlterationRule(variants), nid)
    ELSE LET tok == rule_tokens[idx] IN
      IF tok.kind = "LITERAL" THEN
          BuildLoop(rule_tokens, idx + 1, alteration_variants,
                    Append(current_variant_rules, LiteralRule(tok.value)), nid)
      ELSE IF tok.kind = "REGEX" THEN
          IF ReCompiles(tok.value)
          THEN BuildLoop(rule_tokens, idx + 1, alteration_variants,
                         Append(current_variant_rules, RegexRule(tok.value)), nid)
          ELSE BuildResult(Exception("re.error"), NoRule, nid)
      ELSE IF tok.kind = "SYMBOL" THEN
          BuildLoop(rule_tokens, idx + 1, alteration_variants,
                    Append(current_variant_rules, ReferenceRule(tok.value, nid)), nid + 1)
      ELSE IF tok.kind \in {"OPTION", "STAR", "PLUS"} THEN
          \* current_variant_rules.pop() raises IndexError on an empty list
          IF Len(current_variant_rules) = 0
          THEN BuildResult(Exception("IndexError"), NoRule, nid)
          ELSE LET last == current_variant_rules[Len(current_variant_rules)]
                   wrapped == IF tok.kind = "OPTION" THEN OptionalRule(last)
                              ELSE IF tok.kind = "STAR" THEN NoneOrMoreRule(last)
                              ELSE OneOrMoreRule(last)
               IN BuildLoop(rule_tokens, idx + 1, alteration_variants,
                            ReplaceLast(current_variant_rules, wrapped), nid)
      ELSE IF tok.kind = "ALTER" THEN
          IF Len(current_variant_rules) = 0
          THEN BuildResult(Error("empty alteration variant in rule"), NoRule, nid)
          ELSE BuildLoop(rule_tokens, idx + 1,
                         Append(alteration_variants, FlushVariant(current_variant_rules)),
                         <<>>, nid)
      ELSE BuildResult(Error("rules of this kind are not supported yet"), NoRule, nid)

BuildSymbolRule(rule_tokens, nid) == BuildLoop(rule_tokens, 1, <<>>, <<>>, nid)

\* ----------------------------------------------------------- introspector
\* value.replace('\n', '\\n') of LiteralRule.__repr__
RECURSIVE EscapeNewlines(_)
EscapeNewlines(value) ==
    IF value = <<>> THEN <<>>
    ELSE (IF Head(value) = "\n" THEN <<"\\", "n">> ELSE <<Head(value)>>)
         \o EscapeNewlines(Tail(value))

SelfPlaceholder == "> with reference to self)"

\* (a __repr__ that never sets the flag)
MarkVisitedNever(visited, id) == visited

\* self.__had_repr_call = True
MarkVisited(visited, id) == visited \cup {id}

ReprResult(out, visited, raised) == [out |-> out, visited |-> visited, raised |-> raised]

\* __repr__ of every Rule class.  The output is a sequence of text fragments
\* (fixed texts and the characters of names and values).  visited is the set
\* of ReferenceRule instances whose __had_repr_call is True; depth counts the
\* nested __repr__ calls, and a call past the recursion limit raises
\* RecursionError.
RECURSIVE ReprRule(_, _, _, _)
RECURSIVE ReprJoin(_, _, _, _, _)
ReprRule(node, table, visited, depth) ==
    IF depth > RecursionLimit THEN ReprResult(<<>>, visited, TRUE)
    ELSE IF node.kind = "LiteralRule" THEN
        ReprResult(<<"LiteralRule(\"">> \o EscapeNewlines(node.val) \o <<"\")">>, visited, FALSE)
    ELSE IF node.kind = "RegexRule" THEN
        ReprResult(<<"RegexRule(re.compile('">> \o node.val \o <<"'))">>, visited, FALSE)
    ELSE IF node.kind = "ReferenceRule" THEN
        IF node.id \in visited
        THEN ReprResult(<<"ReferenceRule(<">> \o node.val \o <<SelfPlaceholder>>, visited, FALSE)
        ELSE LET seen == MarkVisited(visited, node.id)
                 at == ContextGet(table, node.val)
             IN IF at = 0
                THEN ReprResult(<<"ReferenceRule(<">> \o node.val \o <<"> with ", "None", ")">>,
                                seen, FALSE)
                ELSE LET r == ReprRule(table[at].rule, table, seen, depth + 1)
                     IN ReprResult(<<"ReferenceRule(<">> \o node.val \o <<"> with ">>
                                       \o r.out \o <<")">>,
                                   r.visited, r.raised)
    ELSE LET r == ReprJoin(node.kids, 1, table, visited, depth + 1)
         IN ReprResult(<<node.kind, "(">> \o r.out \o <<")">>, r.visited, r.raised)

\* ', '.join(repr(v) for v in self.values), left to right
ReprJoin(values, i, table, visited, depth) ==
    IF i > Len(values) THEN ReprResult(<<>>, visited, FALSE)
    ELSE LET r == ReprRule(values[i], table, visited, depth) IN
         IF r.raised THEN r
         ELSE LET rest == ReprJoin(values, i + 1, table, r.visited, depth)
              IN ReprResult(r.out \o (IF i < Len(values) THEN <<", ">> ELSE <<>>) \o rest.out,
                            rest.visited, rest.raised)

\* -------------------------------------------------------------- generator
\* ''.join(parts)
RECURSIVE Join(_)
Join(parts) == IF parts = <<>> THEN <<>> ELSE Head(parts) \o Join(Tail(parts))

Repeat(value, times) == [i \in 1..times |-> value]

\* random_string_from_regex on the patterns of this model (plain characters
\* only, which match themselves)
random_string_from_regex(pattern) == pattern

\* One active gen() call: the node, the inner gen() calls it still has to
\* make (in order), the strings returned by those it has made, and the number
\* of inner calls it set out to make.
Frame(node, todo, parts) ==
    [node |-> node, todo |-> todo, parts |-> parts, times |-> Len(todo)]

\* random.randint(0, START_LIMIT)
NoneOrMoreTimes == 0..START_LIMIT

\* (a draw for + that starts at 0 as the draw for * does)
OneOrMoreTimesFromZero == 0..PLUS_LIMIT

\* random.randint(1, PLUS_LIMIT)
OneOrMoreTimes == 1..PLUS_LIMIT

\* The frames a call of node.gen() can start with: one per random draw.
\* (A ReferenceRule whose symbol is absent starts none: see GenUndefined.)
GenEnter(node, table) ==
    IF node.kind = "LiteralRule" THEN {Frame(node, <<>>, <<node.val>>)}
    ELSE IF node.kind = "RegexRule"
    THEN {Frame(node, <<>>, <<random_string_from_regex(node.val)>>)}
    ELSE IF node.kind = "CompoundRule" THEN {Frame(node, node.kids, <<>>)}
    ELSE IF node.kind = "AlterationRule"
    THEN {Frame(node, <<node.kids[i]>>, <<>>) : i \in 1..Len(node.kids)}
    ELSE IF node.kind = "ReferenceRule"
    THEN LET at == ContextGet(table, node.val)
         IN IF at = 0 THEN {} ELSE {Frame(node, <<table[at].rule>>, <<>>)}
    ELSE IF node.kind = "OptionalRule"
    THEN {Frame(node, IF choice THEN node.kids ELSE <<>>, <<>>) : choice \in BOOLEAN}
    ELSE IF node.kind = "NoneOrMoreRule"
    THEN {Frame(node, Repeat(node.kids[1], times), <<>>) : times \in NoneOrMoreTimes}
    ELSE IF node.kind = "OneOrMoreRule"
    THEN {Frame(node, Repeat(node.kids[1], times), <<>>) : times \in OneOrMoreTimes}
    ELSE {}

\* main's call site f.write(ast_entry_point.gen()): the bottom of the stack
MainFrame(start_ref) == Frame(Rule("main", <<>>, <<>>, 0), <<start_ref>>, <<>>)

Returned(node, times, parts, result) ==
    [node |-> node, times |-> times, parts |-> parts, result |-> result]

NothingReturned == Returned(NoRule, 0, <<>>, <<>>)

\* ------------------------------------------------------------ grammar texts
\* <start> ::= "a" <start>? ;
SelfRefGrammar ==
    <<"<","s","t","a","r","t",">"," ",":",":","="," ","\"","a","\""," ","<",
      "s","t","a","r","t",">","?"," ",";">>

\* <start> ::= "a"* ;
StarGrammar ==
    <<"<","s","t","a","r","t",">"," ",":",":","="," ","\"","a","\"","*"," ",
      ";">>

\* <start> ::= "a"+ ;
PlusGrammar ==
    <<"<","s","t","a","r","t",">"," ",":",":","="," ","\"","a","\"","+"," ",
      ";">>

\* <start> ::= <b>* ; <b> ::= "a" "b"? ;
StarOfRuleGrammar ==
    <<"<","s","t","a","r","t",">"," ",":",":","="," ","<","b",">","*"," ",
      ";"," ","<","b",">"," ",":",":","="," ","\"","a","\""," ","\"","b",
      "\"","?"," ",";">>

\* <start> ::= <b>+ ; <b> ::= "x" | "y" "z" ;
PlusOfRuleGrammar ==
    <<"<","s","t","a","r","t",">"," ",":",":","="," ","<","b",">","+"," ",
      ";"," ","<","b",">"," ",":",":","="," ","\"","x","\""," ","|"," ",
      "\"","y","\""," ","\"","z","\""," ",";">>

\* <start> ::= "a" | <u> ;
UndefinedAltGrammar ==
    <<"<","s","t","a","r","t",">"," ",":",":","="," ","\"","a","\""," ","|",
      " ","<","u",">"," ",";">>

\* <start> ::= "a" <u>? "b" ;
UndefinedOptGrammar ==
    <<"<","s","t","a","r","t",">"," ",":",":","="," ","\"","a","\""," ","<",
      "u",">","?"," ","\"","b","\""," ",";">>

\* <start> ::= "a" | <start> <start> ;
TwoSelfRefGrammar ==
    <<"<","s","t","a","r","t",">"," ",":",":","="," ","\"","a","\""," ","|",
      " ","<","s","t","a","r","t",">"," ","<","s","t","a","r","t",">"," ",
      ";">>

\* <start> ::= "a" <start>? <b> ; <b> ::= 'x' ;
SharedRuleGrammar ==
    <<"<","s","t","a","r","t",">"," ",":",":","="," ","\"","a","\""," ","<",
      "s","t","a","r","t",">","?"," ","<","b",">"," ",";"," ","<","b",">",
      " ",":",":","="," ","'","x","'"," ",";">>

\* <start> ::= <start> ;
LoopGrammar ==
    <<"<","s","t","a","r","t",">"," ",":",":","="," ","<","s","t","a","r",
      "t",">"," ",";">>

\* # digits\n<start> ::= /x/ "\n" ;
RegexGrammar ==
    <<"#"," ","d","i","g","i","t","s","\n","<","s","t","a","r","t",">"," ",
      ":",":","="," ","/","x","/"," ","\"","\\","n","\""," ",";">>

\* <b> ::= "a" ;
NoStartGrammar ==
    <<"<","b",">"," ",":",":","="," ","\"","a","\""," ",";">>

\* <start> ::= ? "a" ;
DanglingOptionGrammar ==
    <<"<","s","t","a","r","t",">"," ",":",":","="," ","?"," ","\"","a","\"",
      " ",";">>

\* <start> ::= "a\
OpenLiteralGrammar ==
    <<"<","s","t","a","r","t",">"," ",":",":","="," ","\"","a","\\">>

\* <start> ::= /*/ ;
BadRegexGrammar ==
    <<"<","s","t","a","r","t",">"," ",":",":","="," ","/","*","/"," ",";">>

Grammars ==
    {BadRegexGrammar,
     SelfRefGrammar,
     StarGrammar,
     PlusGrammar,
     StarOfRuleGrammar,
     PlusOfRuleGrammar,
     UndefinedAltGrammar,
     UndefinedOptGrammar,
     TwoSelfRefGrammar,
     SharedRuleGrammar,
     LoopGrammar,
     RegexGrammar,
     NoStartGrammar,
     DanglingOptionGrammar,
     OpenLiteralGrammar}

StartSymbol == <<"s", "t", "a", "r", "t">>

\* all sequences over S of length at most n
SeqsUpTo(S, n) == UNION {[1..k -> S] : k \in 0..n}

\* -------------------------------------------------------------- the state
\* pc: "lex" -> "extract" -> "check_start" -> "build" -> "main" ->
\*     ("described" | "gen") -> "done"
Idle ==
    /\ tokens = <<>>
    /\ definitions = <<>>
    /\ def_idx = 1
    /\ parsed_rules = <<>>
    /\ next_id = 1
    /\ entry = NoRule
    /\ outcome = Ok
    /\ had_repr_call = {}
    /\ reprs = <<>>
    /\ gstack = <<>>
    /\ output = None
    /\ expanded = {}
    /\ last_ret = NothingReturned

\* main reads the grammar file: one of the grammar texts
Init ==
    /\ pc = "lex"
    /\ bnf \in Grammars
    /\ Idle

Stop(out) == /\ pc' = "done"
             /\ outcome' = out

\* parse_bnf, first half: tokens = lex_bnf(bnf)
Lex ==
    /\ pc = "lex"
    /\ LET r == lex_bnf(bnf) IN
       IF r.out.kind = "ok"
       THEN /\ tokens' = r.tokens
            /\ pc' = "extract"
            /\ UNCHANGED outcome
       ELSE /\ Stop(r.out)
            /\ UNCHANGED tokens
    /\ UNCHANGED <<bnf, definitions, def_idx, parsed_rules, next_id, entry,
                   had_repr_call, reprs, gstack, output, expanded, last_ret>>

\* parse_bnf_tokens, line 441
ParseDefinitions ==
    /\ pc = "extract"
    /\ LET r == parse_all_symbol_definitions(tokens) IN
       IF r.out.kind = "ok"
       THEN /\ definitions' = r.definitions
            /\ pc' = "check_start"
            /\ UNCHANGED outcome
       ELSE /\ Stop(r.out)
            /\ UNCHANGED definitions
    /\ UNCHANGED <<bnf, tokens, def_idx, parsed_rules, next_id, entry,
                   had_repr_call, reprs, gstack, output, expanded, last_ret>>

\* parse_bnf_tokens, lines 442-445
CheckStart ==
    /\ pc = "check_start"
    /\ IF HasKey(definitions, StartSymbol)
       THEN /\ pc' = "build"
            /\ UNCHANGED outcome
       ELSE Stop(Error("could not find an entry point; grammar must contain a <start> rule"))
    /\ def_idx' = 1
    /\ parsed_rules' = <<>>
    /\ UNCHANGED <<bnf, tokens, definitions, next_id, entry,
                   had_repr_call, reprs, gstack, output, expanded, last_ret>>

\* one iteration of "for rule_symbol, rule_tokens in definitions.items()"
BuildRule ==
    /\ pc = "build"
    /\ def_idx <= Len(definitions)
    /\ LET d == definitions[def_idx]
           r == BuildSymbolRule(d.tokens, next_id)
       IN IF r.out.kind = "ok"
          THEN /\ parsed_rules' = Append(parsed_rules, RuleEntry(d.symbol, r.rule))
               /\ next_id' = r.next_id
               /\ def_idx' = def_idx + 1
               /\ UNCHANGED <<pc, outcome>>
          ELSE /\ Stop(r.out)
               /\ UNCHANGED <<parsed_rules, next_id, def_idx>>
    /\ UNCHANGED <<bnf, tokens, definitions, entry,
                   had_repr_call, reprs, gstack, output, expanded, last_ret>>

\* return ReferenceRule('start', parsed_rules)
BuildReturn ==
    /\ pc = "build"
    /\ def_idx > Len(definitions)
    /\ entry' = ReferenceRule(StartSymbol, next_id)
    /\ next_id' = next_id + 1
    /\ pc' = "main"
    /\ UNCHANGED <<bnf, tokens, definitions, def_idx, parsed_rules, outcome,
                   had_repr_call, reprs, gstack, output, expanded, last_ret>>

\* repr(ast_entry_point): main's --emit-ast branch, and any later repr of the
\* same tree by a caller of parse_bnf
Describe ==
    /\ pc \in {"main", "described"}
    /\ Len(reprs) < MaxDescribes
    /\ LET r == ReprRule(entry, parsed_rules, had_repr_call, 1) IN
       /\ had_repr_call' = r.visited
       /\ IF r.raised
          THEN /\ Stop(Exception("RecursionError"))
               /\ UNCHANGED reprs
          ELSE /\ reprs' = Append(reprs, r.out)
               /\ pc' = "described"
               /\ UNCHANGED outcome
    /\ UNCHANGED <<bnf, tokens, definitions, def_idx, parsed_rules, next_id, entry,
                   gstack, output, expanded, last_ret>>

\* main's generation branch reaches f.write(ast_entry_point.gen())
GenStart ==
    /\ pc = "main"
    /\ pc' = "gen"
    /\ gstack' = <<MainFrame(entry)>>
    /\ UNCHANGED <<bnf, tokens, definitions, def_idx, parsed_rules, next_id, entry,
                   outcome, had_repr_call, reprs, output, expanded, last_ret>>

Top == gstack[Len(gstack)]
NextCall == Head(Top.todo)
\* the gen() frames now active (the bottom of the stack is main)
Depth == Len(gstack) - 1

IsUndefined(node) ==
    node.kind = "ReferenceRule" /\ ContextGet(parsed_rules, node.val) = 0

\* the top frame calls gen() on its next inner rule
GenCall ==
    /\ pc = "gen"
    /\ Top.todo # <<>>
    /\ Depth < RecursionLimit
    /\ ~IsUndefined(NextCall)
    /\ \E f \in GenEnter(NextCall, parsed_rules) :
         gstack' = Append([gstack EXCEPT ![Len(gstack)].todo = Tail(@)], f)
    /\ expanded' = IF NextCall.kind = "ReferenceRule"
                   THEN expanded \cup {NextCall.val} ELSE expanded
    /\ UNCHANGED <<pc, bnf, tokens, definitions, def_idx, parsed_rules, next_id, entry,
                   outcome, had_repr_call, reprs, output, last_ret>>

\* ReferenceRule.gen finds no rule for its symbol
GenUndefined ==
    /\ pc = "gen"
    /\ Top.todo # <<>>
    /\ Depth < RecursionLimit
    /\ IsUndefined(NextCall)
    /\ expanded' = expanded \cup {NextCall.val}
    /\ Stop(Error("reference to an undefined rule"))
    /\ gstack' = <<>>
    /\ UNCHANGED <<bnf, tokens, definitions, def_idx, parsed_rules, next_id, entry,
                   had_repr_call, reprs, output, last_ret>>

\* (a main without the "except RecursionError" clause)
GenRecursionErrorUncaught ==
    /\ pc = "gen"
    /\ Top.todo # <<>>
    /\ Depth >= RecursionLimit
    /\ Stop(Exception("RecursionError"))
    /\ gstack' = <<>>
    /\ UNCHANGED <<bnf, tokens, definitions, def_idx, parsed_rules, next_id, entry,
                   had_repr_call, reprs, output, expanded, last_ret>>

\* the call would pass the recursion limit: RecursionError unwinds to main,
\* which reports it
GenRecursionError ==
    /\ pc = "gen"
    /\ Top.todo # <<>>
    /\ Depth >= RecursionLimit
    /\ Stop(Error("maximum recursion depth exceeded"))
    /\ gstack' = <<>>
    /\ UNCHANGED <<bnf, tokens, definitions, def_idx, parsed_rules, next_id, entry,
                   had_repr_call, reprs, output, expanded, last_ret>>

\* the top frame has made all its inner calls and returns their join; the
\* bottom frame (main) writes the string it got
GenReturn ==
    /\ pc = "gen"
    /\ Top.todo = <<>>
    /\ LET result == Join(Top.parts) IN
       IF Len(gstack) = 1
       THEN /\ output' = result
            /\ pc' = "done"
            /\ gstack' = <<>>
            /\ UNCHANGED last_ret
       ELSE /\ gstack' = [SubSeq(gstack, 1, Len(gstack) - 1)
                             EXCEPT ![Len(gstack) - 1].parts = Append(@, result)]
            /\ last_ret' = Returned(Top.node, Top.times, Top.parts, result)
            /\ UNCHANGED <<pc, output>>
    /\ UNCHANGED <<bnf, tokens, definitions, def_idx, parsed_rules, next_id, entry,
                   outcome, had_repr_call, reprs, expanded>>

Next ==
    \/ Lex
    \/ ParseDefinitions
    \/ CheckStart
    \/ BuildRule
    \/ BuildReturn
    \/ Describe
    \/ GenStart
    \/ GenCall
    \/ GenUndefined
    \/ GenRecursionError
    \/ GenReturn

Spec == Init /\ [][Next]_vars

\* a step of the generation run
GenStep ==
    \/ GenCall
    \/ GenUndefined
    \/ GenRecursionError
    \/ GenReturn

\* the generation run is one synchronous call: once started it keeps taking
\* steps until it returns or raises
FairSpec == Spec /\ WF_vars(GenStep)

\* ------------------------------------------- the stages on bounded inputs
\* lex_bnf on every text of at most MaxLexLen characters of LexAlphabet
LexAlphabet ==
    {"<", ">", "a", "!", "\"", "'", "\\", "n", ":", "=", "/", ";", "#", " "}

InitLex ==
    /\ pc = "lex"
    /\ bnf \in SeqsUpTo(LexAlphabet, MaxLexLen)
    /\ Idle

NextLex == Lex

SpecLex == InitLex /\ [][NextLex]_vars

\* parse_all_symbol_definitions (and the <start> check that follows it) on
\* every token list of at most MaxTokens tokens of ExtractTokens; text is the
\* concatenation of the tokens' source forms
ExtractTokens ==
    {Token("SYMBOL", StartSymbol), Token("SYMBOL", <<"b">>), Token("DEFINE", None),
     Token("SEMICOLON", None), Token("LITERAL", <<"a">>), Token("OPTION", None)}

InitExtract ==
    /\ pc = "extract"
    /\ bnf = <<>>
    /\ tokens \in SeqsUpTo(ExtractTokens, MaxTokens)
    /\ definitions = <<>>
    /\ def_idx = 1
    /\ parsed_rules = <<>>
    /\ next_id = 1
    /\ entry = NoRule
    /\ outcome = Ok
    /\ had_repr_call = {}
    /\ reprs = <<>>
    /\ gstack = <<>>
    /\ output = None
    /\ expanded = {}
    /\ last_ret = NothingReturned

NextExtract ==
    \/ ParseDefinitions
    \/ CheckStart

SpecExtract == InitExtract /\ [][NextExtract]_vars

\* the builder loop of parse_bnf_tokens on every definition table that holds
\* <start>, alone or after a rule <b>, with at most MaxRuleTokens tokens of
\* BuildTokens in the enumerated rule body
BuildTokens ==
    {Token("LITERAL", <<"a">>), Token("SYMBOL", StartSymbol), Token("REGEX", <<"x">>),
     Token("OPTION", None), Token("STAR", None), Token("PLUS", None),
     Token("ALTER", None), Token("OPAREN", None)}

BuildInputs ==
    {<<Definition(StartSymbol, body)>> : body \in SeqsUpTo(BuildTokens, MaxRuleTokens)}
    \cup
    {<<Definition(<<"b">>, body), Definition(StartSymbol, <<Token("SYMBOL", <<"b">>)>>)>> :
        body \in SeqsUpTo(BuildTokens, MaxRuleTokens - 2)}

InitBuild ==
    /\ pc = "build"
    /\ bnf = <<>>
    /\ tokens = <<>>
    /\ definitions \in BuildInputs
    /\ def_idx = 1
    /\ parsed_rules = <<>>
    /\ next_id = 1
    /\ entry = NoRule
    /\ outcome = Ok
    /\ had_repr_call = {}
    /\ reprs = <<>>
    /\ gstack = <<>>
    /\ output = None
    /\ expanded = {}
    /\ last_ret = NothingReturned

NextBuild ==
    \/ BuildRule
    \/ BuildReturn

SpecBuild == InitBuild /\ [][NextBuild]_vars

\* the builder followed by repr of the tree it returned
NextDescribe ==
    \/ BuildRule
    \/ BuildReturn
    \/ Describe

SpecDescribe == InitBuild /\ [][NextDescribe]_vars

\* ================================================================ claims
PostfixKinds == {"OPTION", "STAR", "PLUS"}
AtomKinds == {"LITERAL", "REGEX", "SYMBOL"}

\* C1: after a describe (repr) of the start Reference has completed, no
\* Reference node keeps visited state, and a second describe of the same tree
\* returns the same string as the first.
C1_NoVisitedStateLeak ==
    /\ (Len(reprs) >= 1 => had_repr_call = {})
    /\ (Len(reprs) >= 2 => reprs[2] = reprs[1])

\* The builder gets as far as a postfix token with an empty current variant:
\* some OPTION, STAR or PLUS is the first token or follows an ALTER, and no
\* token before it ends the build (an unsupported kind, a pattern that does
\* not compile, an ALTER after nothing).
ReachesPostfixOnEmpty(body) ==
    \E i \in 1..Len(body) :
        /\ body[i].kind \in PostfixKinds
        /\ (i = 1 \/ body[i - 1].kind = "ALTER")
        /\ \A j \in 1..(i - 1) :
              /\ body[j].kind \in AtomKinds \cup PostfixKinds \cup {"ALTER"}
              /\ (body[j].kind = "REGEX" => ReCompiles(body[j].value))
              /\ (body[j].kind = "ALTER" => j > 1 /\ body[j - 1].kind # "ALTER")

\* C2: a postfix token processed while the current variant is empty ends the
\* build in the reported fatal error (never in an unhandled exception), and
\* no rule is stored for that symbol.
C2_PostfixOnEmptyIsReported ==
    (pc = "done" /\ def_idx <= Len(definitions)
       /\ ReachesPostfixOnEmpty(definitions[def_idx].tokens))
    => /\ outcome.kind = "error"
       /\ ~HasKey(parsed_rules, definitions[def_idx].symbol)

\* the text opens a literal that no later quote of the same kind closes
OpensUnterminatedLiteral(text) ==
    /\ Len(text) >= 1
    /\ text[1] \in {"\"", "'"}
    /\ \A i \in 2..Len(text) : text[i] # text[1]

\* C3: a text whose literal is never closed (also one that ends in a
\* backslash inside the literal) ends lex_bnf in the reported fatal lexical
\* error: no token list is returned and no index past the end is read.
C3_UnterminatedLiteralIsReported ==
    (pc # "lex" /\ OpensUnterminatedLiteral(bnf))
    => /\ pc = "done"
       /\ outcome.kind = "error"
       /\ outcome.msg \in {"unterminated literal value", "unrecognized escape sequence"}

\* some DEFINE token has no SYMBOL token right before it
HasDefineWithoutSymbol(toks) ==
    \E i \in 1..Len(toks) :
        /\ toks[i].kind = "DEFINE"
        /\ (i = 1 \/ toks[i - 1].kind # "SYMBOL")

\* every definition that is opened has its SEMICOLON: a SEMICOLON follows the
\* last DEFINE
DefinitionsAreClosed(toks) ==
    \A i \in 1..Len(toks) :
        toks[i].kind = "DEFINE" =>
            \E k \in (i + 1)..Len(toks) : toks[k].kind = "SEMICOLON"

\* C4: a DEFINE token at any position that does not follow a SYMBOL (also one
\* between an earlier DEFINE and that definition's SEMICOLON) ends the
\* extraction in the fatal error "missing symbol for definition".
C4_DefineWithoutSymbolIsReported ==
    (pc # "extract" /\ HasDefineWithoutSymbol(tokens) /\ DefinitionsAreClosed(tokens))
    => outcome = Error("missing symbol for definition")

\* C6: every SYMBOL token that lex_bnf returns has a non-empty name made only
\* of the allowed characters.
C6_SymbolNamesAreWellFormed ==
    pc = "extract" =>
        \A i \in 1..Len(tokens) :
            tokens[i].kind = "SYMBOL" =>
                /\ tokens[i].value # <<>>
                /\ \A k \in 1..Len(tokens[i].value) :
                      tokens[i].value[k] \in ALLOWED_SYMBOL_NAME_CHARACTERS

Undefined(symbol) == ~HasKey(parsed_rules, symbol)

UndefinedRuleError == Error("reference to an undefined rule")
RecursionDepthError == Error("maximum recursion depth exceeded")

UndefinedReferenceGrammars == {UndefinedAltGrammar, UndefinedOptGrammar}

\* main's generation branch has ended (not the parse, not a describe)
GenerationEnded == pc = "done" /\ entry # NoRule /\ reprs = <<>>

\* C5: a grammar that references an undefined symbol parses without error;
\* a generation run ends in the undefined-rule error exactly when it has
\* called gen() on a Reference whose symbol is absent from the table, and a
\* run that never does so returns a string.
C5_UndefinedReferenceIsLazy ==
    /\ (bnf \in UndefinedReferenceGrammars /\ pc = "done") => entry # NoRule
    /\ (bnf \in UndefinedReferenceGrammars /\ pc \in {"main", "described", "gen"})
          => outcome = Ok
    /\ (outcome = UndefinedRuleError) <=> (\E symbol \in expanded : Undefined(symbol))
    /\ (bnf \in UndefinedReferenceGrammars /\ GenerationEnded
          /\ \A symbol \in expanded : ~Undefined(symbol))
          => (outcome = Ok /\ output # None)

C5_Witness ==
    /\ bnf = UndefinedOptGrammar
    /\ pc = "done"
    /\ outcome = UndefinedRuleError
    /\ <<"u">> \in expanded
    /\ output = None

OnlyAs(text) == \A i \in 1..Len(text) : text[i] = "a"

\* C7: every generation run of <start> ::= "a" <start>? ; ends, and ends
\* either with a written string made only of 'a' (whose expansion stayed
\* within the recursion limit: each 'a' is three gen() calls deep) or in the
\* reported error 'maximum recursion depth exceeded' with nothing written.
C7_SelfReferentialGeneration ==
    /\ []((bnf = SelfRefGrammar /\ GenerationEnded) =>
            \/ /\ outcome = Ok
               /\ output # None
               /\ OnlyAs(output)
               /\ 3 * Len(output) <= RecursionLimit
            \/ /\ outcome = RecursionDepthError
               /\ output = None)
    /\ ((bnf = SelfRefGrammar /\ pc = "gen") ~> (pc = "done"))

C7_Witness ==
    /\ bnf = SelfRefGrammar
    /\ pc = "done"
    /\ outcome = Ok
    /\ output = <<"a", "a">>

\* the number of ReferenceRule nodes in a rule tree
RECURSIVE ReferenceCount(_)
RECURSIVE ReferenceCountOfAll(_)
ReferenceCount(rule) ==
    (IF rule.kind = "ReferenceRule" THEN 1 ELSE 0) + ReferenceCountOfAll(rule.kids)

ReferenceCountOfAll(rules) ==
    IF rules = <<>> THEN 0
    ELSE ReferenceCount(Head(rules)) + ReferenceCountOfAll(Tail(rules))

\* the number of ReferenceRule nodes in a rule tree that name the symbol
RECURSIVE ReferencesTo(_, _)
RECURSIVE ReferencesToOfAll(_, _)
ReferencesTo(rule, symbol) ==
    (IF rule.kind = "ReferenceRule" /\ rule.val = symbol THEN 1 ELSE 0)
    + ReferencesToOfAll(rule.kids, symbol)

ReferencesToOfAll(rules, symbol) ==
    IF rules = <<>> THEN 0
    ELSE ReferencesTo(Head(rules), symbol) + ReferencesToOfAll(Tail(rules), symbol)

\* parse_bnf has returned the tree
Built == entry # NoRule

StartRule == parsed_rules[ContextGet(parsed_rules, StartSymbol)].rule

\* the rule of <start> refers to <start>
DirectlySelfReferential == Built /\ ReferencesTo(StartRule, StartSymbol) >= 1

\* the table holds one rule, and its one ReferenceRule node names the rule
SingleSelfReference ==
    /\ Built
    /\ Len(parsed_rules) = 1
    /\ ReferenceCount(StartRule) = 1
    /\ ReferencesTo(StartRule, StartSymbol) = 1

PlaceholderCount(text) ==
    Cardinality({i \in 1..Len(text) : text[i] = SelfPlaceholder})

DescribeRaised == pc = "done" /\ outcome = Exception("RecursionError")

\* C8 as stated: describe on the start Reference of any directly
\* self-referential rule terminates and prints exactly one self-reference
\* placeholder.
C8_ExactlyOnePlaceholder ==
    DirectlySelfReferential =>
        /\ ~DescribeRaised
        /\ (Len(reprs) >= 1 => PlaceholderCount(reprs[1]) = 1)

\* C8 as amended: when the start rule's reference to itself is the only
\* ReferenceRule node of the table, describe on the start Reference
\* terminates and prints exactly one self-reference placeholder.
C8_OnePlaceholderForSingleSelfReference ==
    SingleSelfReference =>
        /\ ~DescribeRaised
        /\ \A i \in 1..Len(reprs) : PlaceholderCount(reprs[i]) = 1

C8_Witness ==
    /\ SingleSelfReference
    /\ StartRule.kind = "CompoundRule"
    /\ Len(reprs) = 1
    /\ PlaceholderCount(reprs[1]) = 1
    /\ Len(reprs[1]) > 20

\* the parts joined, last part last
RECURSIVE Concatenation(_)
Concatenation(parts) ==
    IF Len(parts) = 0 THEN <<>>
    ELSE Concatenation(SubSeq(parts, 1, Len(parts) - 1)) \o parts[Len(parts)]

RepetitionKinds == {"NoneOrMoreRule", "OneOrMoreRule"}

\* the repetition count a node of this kind may draw
AllowedTimes(kind) == IF kind = "NoneOrMoreRule" THEN 0..5 ELSE 1..5

\* an active gen() call of a repetition node: the count it drew is in range,
\* and the inner calls returned, in progress (running is 1 when the frame is
\* not the top of the stack) and still to make are that many calls of its
\* inner rule
RepetitionFrameOk(frame, running) ==
    frame.node.kind \in RepetitionKinds =>
        /\ frame.times \in AllowedTimes(frame.node.kind)
        /\ Len(frame.parts) + running + Len(frame.todo) = frame.times
        /\ \A i \in 1..Len(frame.todo) : frame.todo[i] = frame.node.kids[1]

\* a gen() call of a repetition node that has returned: it made exactly the
\* drawn number of inner calls and returned their concatenation
RepetitionReturnOk(ret) ==
    ret.node.kind \in RepetitionKinds =>
        /\ ret.times \in AllowedTimes(ret.node.kind)
        /\ Len(ret.parts) = ret.times
        /\ ret.result = Concatenation(ret.parts)
        /\ (ret.node.kids[1].kind = "LiteralRule" =>
               \A i \in 1..Len(ret.parts) : ret.parts[i] = ret.node.kids[1].val)

\* C9: a ZeroOrMore node expands its inner rule n times with n in 0..5, a
\* OneOrMore node n times with n in 1..5 (never 0), and what the node returns
\* is the concatenation of exactly those n inner expansions.
C9_RepetitionBounds ==
    /\ \A i \in 1..Len(gstack) :
          RepetitionFrameOk(gstack[i], IF i < Len(gstack) THEN 1 ELSE 0)
    /\ RepetitionReturnOk(last_ret)

\* a ZeroOrMore node that drew 0 and returned the empty string
C9_Witness ==
    /\ pc = "gen"
    /\ last_ret.node.kind = "NoneOrMoreRule"
    /\ last_ret.times = 0
    /\ last_ret.result = <<>>

\* the index of the first ALTER token, 0 when there is none
FirstAlter(body) ==
    IF \E i \in 1..Len(body) : body[i].kind = "ALTER"
    THEN CHOOSE i \in 1..Len(body) :
            /\ body[i].kind = "ALTER"
            /\ \A j \in 1..(i - 1) : body[j].kind # "ALTER"
    ELSE 0

\* the token list split at its ALTER tokens
RECURSIVE SplitAtAlter(_)
SplitAtAlter(body) ==
    IF FirstAlter(body) = 0 THEN <<body>>
    ELSE <<SubSeq(body, 1, FirstAlter(body) - 1)>>
         \o SplitAtAlter(SubSeq(body, FirstAlter(body) + 1, Len(body)))

AtomNode(tok) ==
    IF tok.kind = "LITERAL" THEN Rule("LiteralRule", tok.value, <<>>, 0)
    ELSE IF tok.kind = "REGEX" THEN Rule("RegexRule", tok.value, <<>>, 0)
    ELSE Rule("ReferenceRule", tok.value, <<>>, 0)

ModifierKind(tok) ==
    IF tok.kind = "OPTION" THEN "OptionalRule"
    ELSE IF tok.kind = "STAR" THEN "NoneOrMoreRule"
    ELSE "OneOrMoreRule"

\* the node wrapped by the modifiers that follow it, innermost first
RECURSIVE Wrapped(_, _)
Wrapped(node, modifiers) ==
    IF modifiers = <<>> THEN node
    ELSE Wrapped(Rule(ModifierKind(Head(modifiers)), <<>>, <<node>>, 0), Tail(modifiers))

AtomPositions(segment) == {p \in 1..Len(segment) : segment[p].kind \in AtomKinds}

\* the position of the k-th atom of the segment
AtomAt(segment, k) ==
    CHOOSE p \in AtomPositions(segment) :
        Cardinality({q \in AtomPositions(segment) : q < p}) = k - 1

\* the k-th node of the segment: its k-th atom under the modifiers between
\* that atom and the next one (or the end of the segment)
SegmentNode(segment, k) ==
    LET from == AtomAt(segment, k)
        to == IF k = Cardinality(AtomPositions(segment))
              THEN Len(segment) ELSE AtomAt(segment, k + 1) - 1
    IN Wrapped(AtomNode(segment[from]), SubSeq(segment, from + 1, to))

\* a variant: a non-empty run of atoms and modifiers that opens with an atom
WellFormedSegment(segment) ==
    /\ segment # <<>>
    /\ segment[1].kind \in AtomKinds
    /\ \A p \in 1..Len(segment) : segment[p].kind \in AtomKinds \cup PostfixKinds

ExpectedVariant(segment) ==
    IF Cardinality(AtomPositions(segment)) = 1 THEN SegmentNode(segment, 1)
    ELSE Rule("CompoundRule", <<>>,
              [k \in 1..Cardinality(AtomPositions(segment)) |-> SegmentNode(segment, k)], 0)

ExpectedRule(body) ==
    LET segments == SplitAtAlter(body) IN
    IF Len(segments) = 1 THEN ExpectedVariant(segments[1])
    ELSE Rule("AlterationRule", <<>>,
              [k \in 1..Len(segments) |-> ExpectedVariant(segments[k])], 0)

\* the rule tree without the identities of its ReferenceRule instances
RECURSIVE Shape(_)
Shape(rule) ==
    Rule(rule.kind, rule.val, [k \in 1..Len(rule.kids) |-> Shape(rule.kids[k])], 0)

\* C10: the rule stored for a symbol whose token list builds without error
\* is, for the token list split at ALTER into k >= 1 non-empty variants, the
\* single variant when k = 1 and otherwise the AlterationRule of the k
\* variants in source order; a variant is its bare node when it holds one
\* node and otherwise the CompoundRule of its nodes in source order, and each
\* postfix modifier wraps only the node right before it in its variant.
C10_StoredRuleShape ==
    /\ Len(parsed_rules) <= Len(definitions)
    /\ \A k \in 1..Len(parsed_rules) :
          LET body == definitions[k].tokens
              segments == SplitAtAlter(body)
          IN /\ parsed_rules[k].symbol = definitions[k].symbol
             /\ \A n \in 1..Len(segments) : WellFormedSegment(segments[n])
             /\ Shape(parsed_rules[k].rule) = ExpectedRule(body)

\* a rule stored as an AlterationRule whose first variant is a CompoundRule
C10_Witness ==
    /\ pc = "main"
    /\ Len(parsed_rules) = 1
    /\ parsed_rules[1].rule.kind = "AlterationRule"
    /\ Len(parsed_rules[1].rule.kids) = 2
    /\ parsed_rules[1].rule.kids[1].kind = "CompoundRule"
    /\ Len(parsed_rules[1].rule.kids[1].kids) = 2
    /\ parsed_rules[1].rule.kids[2].kind = "ReferenceRule"

\* positions of toks that belong to a definition: a DEFINE, and everything
\* after a DEFINE up to and including the first SEMICOLON that follows it (up
\* to the end of the list when no SEMICOLON follows)
InDefinition(toks, p) ==
    \/ toks[p].kind = "DEFINE"
    \/ \E d \in 1..(p - 1) :
           /\ toks[d].kind = "DEFINE"
           /\ \A k \in (d + 1)..(p - 1) : toks[k].kind # "SEMICOLON"

FollowedByDefine(toks, p) == p < Len(toks) /\ toks[p + 1].kind = "DEFINE"

\* the tokens outside a definition: neither inside one nor the SYMBOL
\* immediately before a DEFINE
OutsidePositions(toks) ==
    {p \in 1..Len(toks) :
        /\ ~InDefinition(toks, p)
        /\ ~(toks[p].kind = "SYMBOL" /\ FollowedByDefine(toks, p))}

\* the tokens outside a definition that no DEFINE follows immediately
StrayPositions(toks) ==
    {p \in 1..Len(toks) :
        /\ ~InDefinition(toks, p)
        /\ ~FollowedByDefine(toks, p)}

\* toks without the tokens at the positions in gone, order kept
RECURSIVE WithoutFrom(_, _, _)
WithoutFrom(toks, gone, p) ==
    IF p > Len(toks) THEN <<>>
    ELSE IF p \in gone THEN WithoutFrom(toks, gone, p + 1)
    ELSE <<toks[p]>> \o WithoutFrom(toks, gone, p + 1)

Without(toks, gone) == WithoutFrom(toks, gone, 1)

NoStartError ==
    Error("could not find an entry point; grammar must contain a <start> rule")

\* how the extraction of the state's tokens ended (the entry-point check that
\* follows a successful extraction may have replaced the outcome since)
ExtractionOutcome == IF outcome = NoStartError THEN Ok ELSE outcome

\* the extraction of toks ends as the extraction of the state's tokens did:
\* the same error, or no error and the same definition table
SameExtraction(toks) ==
    LET r == parse_all_symbol_definitions(toks) IN
    /\ r.out = ExtractionOutcome
    /\ (r.out.kind = "ok" => r.definitions = definitions)

\* the tokens missing from toks caused no error and changed no table: when
\* either extraction, of toks or of the state's tokens, returns a table, the
\* other returns the same table
SameTable(toks) ==
    LET r == parse_all_symbol_definitions(toks) IN
    (r.out.kind = "ok" \/ ExtractionOutcome.kind = "ok") =>
        /\ r.out = ExtractionOutcome
        /\ r.definitions = definitions

\* C11 (as stated): the tokens that are neither inside a definition nor the
\* SYMBOL immediately before a DEFINE cause no error and do not change the
\* definition table: with any of them taken out of the token list, the
\* extraction returns a table exactly when it did with them, and the same one.
C11_OutsideTokensAreIgnored ==
    pc # "extract" =>
        \A gone \in SUBSET OutsidePositions(tokens) :
            SameTable(Without(tokens, gone))

\* C11 (amended): the tokens that are neither inside a definition nor
\* immediately before a DEFINE cause no error and do not change the definition
\* table: with any of them taken out of the token list, the extraction ends
\* the same way, in the same error or in the same table.
C11_StrayTokensAreIgnored ==
    pc # "extract" =>
        \A gone \in SUBSET StrayPositions(tokens) :
            SameExtraction(Without(tokens, gone))

\* an extraction that returned a definition although a stray LITERAL stands
\* before the definition and a stray SEMICOLON after it
C11_Witness ==
    /\ pc = "check_start"
    /\ Len(definitions) = 1
    /\ Len(tokens) > 1
    /\ {1, Len(tokens)} \subseteq StrayPositions(tokens)
    /\ tokens[1].kind = "LITERAL"
    /\ tokens[Len(tokens)].kind = "SEMICOLON"

====
